---- MODULE Spec2Model ----
(***************************************************************************)
(* Aggregation service: joins the text and the image embedding of an id in *)
(* Redis and forwards the combined record to the database service.         *)
(*                                                                         *)
(*   app/services/redis_service.py      save_embeddings_batch              *)
(*   app/services/ingestion_service.py  ingest_combined_data_bulk          *)
(*   app/core/aggregator.py             Aggregator.aggregate_data_batch    *)
(*                                                                         *)
(* Redis is modelled by three variables: the hashes keyed by id (store)    *)
(* and the two readiness sets.  A request is a coroutine: it is suspended  *)
(* at every await, so each action below is the code between two awaits     *)
(* together with the Redis or HTTP round trip that ends it.                *)
(***************************************************************************)
EXTENDS Naturals, Sequences, FiniteSets, TLC

\* ------------------------------------------------------------------ domains

\* Ids, embeddings and index names the requests are drawn from.
Ids == {"x", "y"}
Embeddings == {<<1>>, <<2>>}
IndexNames == {"i1", "i2"}
EmbeddingTypes == {"EMBEDDINGS_TEXT", "EMBEDDINGS_IMAGE"}

\* Requests in flight at once, and the requests each may serve.
Procs == {"p1", "p2"}
SeqProc == "p1"
MaxCalls == 2
MaxSeqCalls == 2
\* Entries of one batch: of a request that runs alone, and of concurrent requests.
MaxBatch == 2
MaxConcurrentBatch == 1
\* Posts the sink log keeps (later posts are accepted but not logged).
MaxSink == 4

\* app/models/data_model.py: Embedding
Embedding == [id : Ids, embedding_type : EmbeddingTypes,
              embedding : Embeddings, index_name : IndexNames]

RECURSIVE SeqsUpTo(_, _)
SeqsUpTo(S, n) ==
    IF n = 0 THEN {<<>>}
    ELSE LET shorter == SeqsUpTo(S, n - 1)
         IN shorter \cup {Append(s, e) : s \in {t \in shorter : Len(t) = n - 1}, e \in S}

\* app/models/data_model.py: BatchEmbeddings.embeddings
Batches == SeqsUpTo(Embedding, MaxBatch)
ConcurrentBatches == SeqsUpTo(Embedding, MaxConcurrentBatch)

\* ------------------------------------------------------------------ Redis

TEXT_EMBEDDING_SET == "text_embedding_ids"
IMAGE_EMBEDDING_SET == "image_embedding_ids"

\* The hash of a key that does not exist: Redis returns {} for it.
NoHash == <<>>

\* json.dumps / json.loads of an embedding: the stored field is a string
\* holding the list, and loads gives the list back.
Dumps(embedding) == [json |-> embedding]
Loads(s) == s.json

\* A Redis database: the hashes and the two sets.
Db(hashes, text, image) == [hashes |-> hashes, text |-> text, image |-> image]

\* HGETALL key
HGetAll(hashes, key) == hashes[key]

\* HSET key field value [field value ...]: sets the given fields, keeps the others.
\* (variant: the mapping replaces the hash, as DEL followed by HSET would)
HSetReplacing(hash, mapping) == mapping
HSet(hash, mapping) ==
    [f \in (DOMAIN hash) \cup (DOMAIN mapping) |->
        IF f \in DOMAIN mapping THEN mapping[f] ELSE hash[f]]

\* (variant: the embedding is appended to the one already stored for the type)
UpdatedDataAppending(existing_data, e) ==
    LET old == IF e.embedding_type \in DOMAIN existing_data
               THEN Loads(existing_data[e.embedding_type]) ELSE <<>>
        new == (e.embedding_type :> Dumps(old \o e.embedding)) @@ ("index_name" :> e.index_name)
    IN  [f \in (DOMAIN existing_data) \cup (DOMAIN new) |->
            IF f \in DOMAIN new THEN new[f] ELSE existing_data[f]]

\* (variant: the embedding is always stored under the text field)
UpdatedDataTextField(existing_data, e) ==
    LET new == ("EMBEDDINGS_TEXT" :> Dumps(e.embedding)) @@ ("index_name" :> e.index_name)
    IN  [f \in (DOMAIN existing_data) \cup (DOMAIN new) |->
            IF f \in DOMAIN new THEN new[f] ELSE existing_data[f]]

\* existing_data[embedding_type] = json.dumps(embedding)
\* existing_data['index_name'] = index_name
UpdatedData(existing_data, e) ==
    LET new == (e.embedding_type :> Dumps(e.embedding)) @@ ("index_name" :> e.index_name)
    IN  [f \in (DOMAIN existing_data) \cup (DOMAIN new) |->
            IF f \in DOMAIN new THEN new[f] ELSE existing_data[f]]

\* The set an embedding type is tracked in.
\* (variant: both branches add to the text set)
ReadinessSetTextOnly(embedding_type) == TEXT_EMBEDDING_SET
ReadinessSet(embedding_type) ==
    IF embedding_type = "EMBEDDINGS_TEXT" THEN TEXT_EMBEDDING_SET ELSE IMAGE_EMBEDDING_SET

\* The two commands one loop iteration adds to the pipeline.
Queued(existing_data, e) ==
    << [cmd |-> "hset", key |-> e.id, arg |-> UpdatedData(existing_data, e)],
       [cmd |-> "sadd", key |-> ReadinessSet(e.embedding_type), arg |-> e.id] >>

\* One queued command applied to the database.
\* (variant: the sadd commands are dropped)
ApplyCmdWithoutSadd(db, c) ==
    IF c.cmd = "hset" THEN [db EXCEPT !.hashes[c.key] = HSet(@, c.arg)] ELSE db
ApplyCmd(db, c) ==
    IF c.cmd = "hset"
    THEN [db EXCEPT !.hashes[c.key] = HSet(@, c.arg)]
    ELSE IF c.key = TEXT_EMBEDDING_SET
         THEN [db EXCEPT !.text = @ \cup {c.arg}]
         ELSE [db EXCEPT !.image = @ \cup {c.arg}]

\* pipe.execute(): the queued commands, in order, as one MULTI/EXEC transaction.
RECURSIVE Execute(_, _)
Execute(db, cmds) ==
    IF cmds = <<>> THEN db ELSE Execute(ApplyCmd(db, Head(cmds)), Tail(cmds))

\* SINTER text_embedding_ids image_embedding_ids
SInter(db) == db.text \cap db.image

\* Step 4: the records of the fetched hashes that hold both embeddings.
HasBoth(combined_data) ==
    /\ "EMBEDDINGS_TEXT" \in DOMAIN combined_data
    /\ "EMBEDDINGS_IMAGE" \in DOMAIN combined_data

Formatted(ids, hashes) ==
    { [id |-> data_id,
       text_embedding |-> Loads(hashes[data_id]["EMBEDDINGS_TEXT"]),
       image_embedding |-> Loads(hashes[data_id]["EMBEDDINGS_IMAGE"]),
       index_name |-> hashes[data_id]["index_name"]]
      : data_id \in {i \in ids : HasBoth(HGetAll(hashes, i))} }

\* delete_keys_from_redis(ids): DEL of each key (the function is imported by
\* ingestion_service.py and is not in redis_service.py).
DeleteKeys(hashes, ids) == [k \in DOMAIN hashes |-> IF k \in ids THEN NoHash ELSE hashes[k]]

\* ------------------------------------------------------------ ingestion

\* index_names = set(data['index_name'] for data in data_list)
IndexNamesOf(data_list) == {data.index_name : data \in data_list}

\* if len(index_names) > 1: raise ValueError
\* (variant: the test lets two index names through)
MixedOverTwo(data_list) == Cardinality(IndexNamesOf(data_list)) > 2
Mixed(data_list) == Cardinality(IndexNamesOf(data_list)) > 1

\* ids_to_clear = [data['id'] for data in data_list]
\* (variant: one record of the list is skipped, as data_list[1:] would)
IdsToClearSkippingOne(data_list) ==
    {data.id : data \in data_list} \ {(CHOOSE data \in data_list : TRUE).id}
\* (variant: every key of the store is cleared, whatever the list holds)
IdsToClearEveryKey(data_list) == Ids
IdsToClear(data_list) == {data.id : data \in data_list}

\* The status codes the database service answers with.
StatusCodes == {200, 500}

\* if response.status_code == 200
\* (variant: any response counts as success)
SucceededAlways(status_code) == TRUE
Succeeded(status_code) == status_code = 200

\* ------------------------------------------------------------------ state

VARIABLES
    store,                 \* Redis: id -> hash (NoHash when the key does not exist)
    text_embedding_ids,    \* Redis: the set TEXT_EMBEDDING_SET
    image_embedding_ids,   \* Redis: the set IMAGE_EMBEDDING_SET
    sink,                  \* the posts the database service answered 200, in order
    pc,                    \* per request: the await it is suspended at
    batch_embeddings,      \* per request: the argument of aggregate_data_batch
    pipe,                  \* per request: the commands queued in the pipeline
    ready_ids,             \* per request: the result of SINTER
    combined_data_list,             \* per request: the list save_embeddings_batch returned
    result,                \* per request: how the last call ended
    calls,                 \* per request slot: calls served so far
    submitted              \* history: id -> the types written since the key last did not exist

redis == <<store, text_embedding_ids, image_embedding_ids>>
locals == <<pc, batch_embeddings, pipe, ready_ids, combined_data_list, result, calls>>
vars == <<store, text_embedding_ids, image_embedding_ids, sink, pc, batch_embeddings,
          pipe, ready_ids, combined_data_list, result, calls, submitted>>

CurrentDb == Db(store, text_embedding_ids, image_embedding_ids)

Init ==
    /\ store = [id \in Ids |-> NoHash]
    /\ text_embedding_ids = {}
    /\ image_embedding_ids = {}
    /\ sink = <<>>
    /\ pc = [p \in Procs |-> "idle"]
    /\ batch_embeddings = [p \in Procs |-> <<>>]
    /\ pipe = [p \in Procs |-> <<>>]
    /\ ready_ids = [p \in Procs |-> {}]
    /\ combined_data_list = [p \in Procs |-> {}]
    /\ result = [p \in Procs |-> "none"]
    /\ calls = [p \in Procs |-> 0]
    /\ submitted = [id \in Ids |-> {}]

\* The types a batch writes for an id.
TypesIn(batch, id) ==
    {batch[k].embedding_type : k \in {j \in 1..Len(batch) : batch[j].id = id}}

\* The sink's log after it answered 200 to a post.
Logged(log, posted) ==
    IF Len(log) < MaxSink
    THEN Append(log, [index_name |-> CHOOSE n \in IndexNamesOf(posted) : TRUE,
                      json |-> posted])
    ELSE log

\* -------------------------------------------- a request, await by await

\* aggregate_data_batch(batch) is called: save_embeddings_batch opens its pipeline.
Arrive(p, batch) ==
    /\ pc[p] = "idle"
    /\ batch_embeddings' = [batch_embeddings EXCEPT ![p] = batch]
    /\ combined_data_list' = [combined_data_list EXCEPT ![p] = {}]
    /\ result' = [result EXCEPT ![p] = "running"]
    /\ pc' = [pc EXCEPT ![p] = IF batch = <<>> THEN "execute" ELSE "loop"]
    /\ UNCHANGED <<redis, sink, pipe, ready_ids, submitted>>

\* A call of a request slot that serves at most MaxCalls calls.
Start(p, batch) ==
    /\ calls[p] < MaxCalls
    /\ calls' = [calls EXCEPT ![p] = @ + 1]
    /\ Arrive(p, batch)

\* One iteration of the loop of step 1: await hgetall(key), then queue hset and sadd.
Loop(p) ==
    /\ pc[p] = "loop"
    /\ LET k == (Len(pipe[p]) \div 2) + 1
           e == batch_embeddings[p][k]
           existing_data == HGetAll(store, e.id)
       IN  /\ pipe' = [pipe EXCEPT ![p] = @ \o Queued(existing_data, e)]
           /\ pc' = [pc EXCEPT ![p] = IF k = Len(batch_embeddings[p]) THEN "execute" ELSE "loop"]
    /\ UNCHANGED <<redis, sink, batch_embeddings, ready_ids, combined_data_list, result, calls, submitted>>

\* await pipe.execute()
ExecutePipe(p) ==
    /\ pc[p] = "execute"
    /\ LET db == Execute(CurrentDb, pipe[p])
       IN  /\ store' = db.hashes
           /\ text_embedding_ids' = db.text
           /\ image_embedding_ids' = db.image
    /\ submitted' = [id \in Ids |-> submitted[id] \cup TypesIn(batch_embeddings[p], id)]
    /\ pipe' = [pipe EXCEPT ![p] = <<>>]
    /\ pc' = [pc EXCEPT ![p] = "sinter"]
    /\ UNCHANGED <<sink, batch_embeddings, ready_ids, combined_data_list, result, calls>>

\* Step 2: await sinter(TEXT_EMBEDDING_SET, IMAGE_EMBEDDING_SET)
\* (variant: the intersection is taken as if before the request's own sadd)
IntersectOwnWriteUnseen(p) ==
    /\ pc[p] = "sinter"
    /\ ready_ids' = [ready_ids EXCEPT ![p] =
            SInter(CurrentDb) \ {batch_embeddings[p][k].id : k \in 1..Len(batch_embeddings[p])}]
    /\ pc' = [pc EXCEPT ![p] = "fetch"]
    /\ UNCHANGED <<redis, sink, batch_embeddings, pipe, combined_data_list, result, calls, submitted>>
Intersect(p) ==
    /\ pc[p] = "sinter"
    /\ ready_ids' = [ready_ids EXCEPT ![p] = SInter(CurrentDb)]
    /\ pc' = [pc EXCEPT ![p] = "fetch"]
    /\ UNCHANGED <<redis, sink, batch_embeddings, pipe, combined_data_list, result, calls, submitted>>

\* Steps 3 and 4: the pipelined hgetall and the formatting; then, with no await in
\* between, aggregate_data_batch's test of the list and ingest_combined_data_bulk
\* up to its post.
Fetch(p) ==
    /\ pc[p] = "fetch"
    /\ LET formatted == Formatted(ready_ids[p], store)
       IN  /\ combined_data_list' = [combined_data_list EXCEPT ![p] = formatted]
           /\ result' = [result EXCEPT ![p] =
                   IF formatted = {} THEN "nothing"
                   ELSE IF Mixed(formatted) THEN "ValueError" ELSE @]
           /\ pc' = [pc EXCEPT ![p] =
                   IF formatted = {} \/ Mixed(formatted) THEN "idle" ELSE "post"]
    /\ ready_ids' = [ready_ids EXCEPT ![p] = {}]
    /\ UNCHANGED <<redis, sink, batch_embeddings, pipe, calls, submitted>>

\* await client.post(...): the database service answers.
Respond(p, status_code) ==
    /\ pc[p] = "post"
    /\ IF Succeeded(status_code)
       THEN /\ pc' = [pc EXCEPT ![p] = "delete"]
            /\ UNCHANGED result
       ELSE /\ pc' = [pc EXCEPT ![p] = "idle"]
            /\ result' = [result EXCEPT ![p] = "Exception"]
    /\ UNCHANGED <<redis, batch_embeddings, pipe, ready_ids, combined_data_list, calls, submitted>>

\* The post, with the sink's log of what it answered 200 to.
Post(p, status_code) ==
    /\ Respond(p, status_code)
    /\ sink' = IF status_code = 200 THEN Logged(sink, combined_data_list[p]) ELSE sink

\* await delete_keys_from_redis(ids_to_clear), then return.
Delete(p) ==
    /\ pc[p] = "delete"
    /\ store' = DeleteKeys(store, IdsToClear(combined_data_list[p]))
    /\ submitted' = [id \in Ids |-> IF store'[id] = NoHash THEN {} ELSE submitted[id]]
    /\ result' = [result EXCEPT ![p] = "returned"]
    /\ pc' = [pc EXCEPT ![p] = "idle"]
    /\ UNCHANGED <<text_embedding_ids, image_embedding_ids, sink, batch_embeddings, pipe,
                   ready_ids, combined_data_list, calls>>

Step(p) ==
    \/ \E batch \in ConcurrentBatches : Start(p, batch)
    \/ Loop(p)
    \/ ExecutePipe(p)
    \/ Intersect(p)
    \/ Fetch(p)
    \/ \E status_code \in StatusCodes : Post(p, status_code)
    \/ Delete(p)

Next == \E p \in Procs : Step(p)

\* Concurrent requests, each a coroutine suspended at its awaits.
Spec == Init /\ [][Next]_vars

\* ------------------------------------- a request that runs alone, as a whole

\* Step 1 of save_embeddings_batch with no other request in between: every hgetall
\* of the loop reads the hashes as they were when the call began, since the
\* pipeline is executed only after the loop.
RECURSIVE Pipeline(_, _)
Pipeline(hashes, batch) ==
    IF batch = <<>> THEN <<>>
    ELSE Queued(HGetAll(hashes, Head(batch).id), Head(batch)) \o Pipeline(hashes, Tail(batch))

\* save_embeddings_batch: the database after step 1, and the list it returns.
Saved(db, batch) == Execute(db, Pipeline(db.hashes, batch))
Joined(db, batch) == Formatted(SInter(Saved(db, batch)), Saved(db, batch).hashes)

\* aggregate_data_batch on db, the sink answering status_code if it is asked:
\* the database left behind, the list joined, how the call ended, and whether
\* the sink took the list.
AggregateDataBatch(db, batch, status_code) ==
    LET saved == Saved(db, batch)
        formatted == Formatted(SInter(saved), saved.hashes)
        posted == formatted # {} /\ ~Mixed(formatted)
    IN  [db |-> IF posted /\ Succeeded(status_code)
                THEN [saved EXCEPT !.hashes = DeleteKeys(@, IdsToClear(formatted))]
                ELSE saved,
         formatted |-> formatted,
         result |-> IF formatted = {} THEN "nothing"
                    ELSE IF Mixed(formatted) THEN "ValueError"
                    ELSE IF Succeeded(status_code) THEN "returned" ELSE "Exception",
         accepted |-> posted /\ status_code = 200]

\* The whole of aggregate_data_batch(batch) as one step.
Serve(p, batch, status_code) ==
    /\ pc[p] = "idle"
    /\ LET out == AggregateDataBatch(CurrentDb, batch, status_code)
       IN  /\ store' = out.db.hashes
           /\ text_embedding_ids' = out.db.text
           /\ image_embedding_ids' = out.db.image
           /\ sink' = IF out.accepted THEN Logged(sink, out.formatted) ELSE sink
           /\ combined_data_list' = [combined_data_list EXCEPT ![p] = out.formatted]
           /\ result' = [result EXCEPT ![p] = out.result]
           /\ submitted' = [id \in Ids |->
                   IF out.db.hashes[id] = NoHash THEN {}
                   ELSE submitted[id] \cup TypesIn(batch, id)]
    /\ batch_embeddings' = [batch_embeddings EXCEPT ![p] = batch]
    /\ UNCHANGED <<pc, pipe, ready_ids>>

SeqCall(batch, status_code) ==
    /\ calls[SeqProc] < MaxSeqCalls
    /\ calls' = [calls EXCEPT ![SeqProc] = @ + 1]
    /\ Serve(SeqProc, batch, status_code)

NextSeq == \E batch \in Batches, status_code \in StatusCodes : SeqCall(batch, status_code)

\* One request at a time: each call runs to its end before the next begins.
SpecSeq == Init /\ [][NextSeq]_vars

\* ------------------------------------------------------ the single-item path

\* aggregate_data(id, embedding_type, embedding), which routes.py calls for each
\* entry and which is not in aggregator.py: read the record, merge the side, write
\* it back, complete iff both sides are present.
Submit(hashes, e) ==
    LET side == (e.embedding_type :> Dumps(e.embedding)) @@ ("index_name" :> e.index_name)
        record == hashes[e.id]
        merged == [f \in (DOMAIN record) \cup (DOMAIN side) |->
                      IF f \in DOMAIN side THEN side[f] ELSE record[f]]
    IN  [hashes |-> [hashes EXCEPT ![e.id] = merged],
         completed |-> EmbeddingTypes \subseteq DOMAIN merged]

\* The ids the single-item path completes when the entries are submitted in order.
RECURSIVE SubmittedOneByOne(_, _)
SubmittedOneByOne(hashes, entries) ==
    IF entries = <<>> THEN {}
    ELSE LET one == Submit(hashes, Head(entries))
         IN  (IF one.completed THEN {Head(entries).id} ELSE {})
                 \cup SubmittedOneByOne(one.hashes, Tail(entries))

\* ------------------------------------------------- calls that keep arriving

\* A call of a slot that serves calls without end (calls is not counted), and its
\* post (the log of the sink, which would grow without end, is not kept).
StartLive(p, batch) == Arrive(p, batch) /\ UNCHANGED calls
PostLive(p, status_code) == Respond(p, status_code) /\ UNCHANGED sink

NextLive ==
    \/ \E batch \in ConcurrentBatches : StartLive(SeqProc, batch)
    \/ Loop(SeqProc)
    \/ ExecutePipe(SeqProc)
    \/ Intersect(SeqProc)
    \/ Fetch(SeqProc)
    \/ \E status_code \in StatusCodes : PostLive(SeqProc, status_code)
    \/ Delete(SeqProc)

\* One request slot that is called again and again, await by await.  The event
\* loop resumes every coroutine whose await has completed and callers keep
\* calling (weak fairness of the steps); a sink that is asked again and again
\* answers 200 again and again (strong fairness of the 200 answer).
SpecLive ==
    /\ Init /\ [][NextLive]_vars
    /\ WF_vars(NextLive)
    /\ SF_vars(PostLive(SeqProc, 200))

\* -------------------------------------------------------------- properties

IdsOf(list) == {data.id : data \in list}
HoldsBoth(hash) == EmbeddingTypes \subseteq DOMAIN hash
HoldsOne(hash) == Cardinality(EmbeddingTypes \cap DOMAIN hash) = 1
Other(p) == CHOOSE q \in Procs : q # p

\* C1: when ingest_combined_data_bulk returns after a 200 (the step that awaits
\* the delete and returns), no id of the list it forwarded has a hash left in
\* the store.
C1_ForwardedIdsDeleted ==
    [][\A p \in Procs : Delete(p) =>
          /\ result'[p] = "returned"
          /\ \A data \in combined_data_list[p] : store'[data.id] = NoHash]_vars

\* A call has returned after forwarding two records, and both hashes are gone.
C1_Witness ==
    \E p \in Procs :
        /\ pc[p] = "idle" /\ result[p] = "returned"
        /\ Cardinality(combined_data_list[p]) = 2
        /\ \A data \in combined_data_list[p] : store[data.id] = NoHash
        /\ \E k \in 1..Len(sink) : sink[k].json = combined_data_list[p]

\* C3: a list with more than one index_name ends the call with the ValueError at
\* the step that built it: the sink is not asked, no hash is deleted, and no
\* request is ever at the post or the delete with such a list, nor does the sink
\* ever log one.
C3_MixedPartitionFails ==
    /\ [][\A p \in Procs :
            (Fetch(p) /\ Cardinality(IndexNamesOf(combined_data_list'[p])) > 1) =>
                /\ result'[p] = "ValueError" /\ pc'[p] = "idle"
                /\ sink' = sink /\ store' = store]_vars
    /\ [](\A p \in Procs : pc[p] \in {"post", "delete"} =>
                Cardinality(IndexNamesOf(combined_data_list[p])) = 1)
    /\ [](\A k \in 1..Len(sink) : Cardinality(IndexNamesOf(sink[k].json)) = 1)

\* A call has ended with the ValueError on two records of different index names,
\* both still stored in full and neither ever logged by the sink.
C3_Witness ==
    \E p \in Procs :
        /\ pc[p] = "idle" /\ result[p] = "ValueError"
        /\ Cardinality(IndexNamesOf(combined_data_list[p])) = 2
        /\ \A data \in combined_data_list[p] : HoldsBoth(store[data.id])
        /\ sink = <<>>

\* C4: every record in the list a join returns is of an id for which both types
\* were submitted since its key last did not exist.
C4_NoFalseCompletion ==
    [][\A p \in Procs : Fetch(p) =>
          \A data \in combined_data_list'[p] : submitted[data.id] = EmbeddingTypes]_vars

\* C9: when a request executes its pipeline with one type of an id while another
\* request, still in flight, has already written the other type of that id (and
\* the key was not deleted since), the hash holds both types afterwards, whether
\* the mapping it writes was read before or after the other write.
C9_BothSidesSurvive ==
    [][\A p \in Procs : \A id \in Ids : \A t \in EmbeddingTypes :
          ( /\ ExecutePipe(p)
            /\ pc[Other(p)] \in {"sinter", "fetch", "post", "delete"}
            /\ t \in TypesIn(batch_embeddings[Other(p)], id)
            /\ t \in submitted[id]
            /\ TypesIn(batch_embeddings[p], id) = EmbeddingTypes \ {t} )
          => HoldsBoth(store'[id])]_vars

\* One request has written its type; the other is about to execute an hset whose
\* mapping was read before that write and lacks the type.
C9_Witness ==
    \E p \in Procs : \E id \in Ids : \E t \in EmbeddingTypes :
        /\ pc[p] = "execute" /\ pc[Other(p)] = "sinter"
        /\ t \in TypesIn(batch_embeddings[Other(p)], id)
        /\ TypesIn(batch_embeddings[p], id) = EmbeddingTypes \ {t}
        /\ t \in DOMAIN store[id] /\ t \in submitted[id]
        /\ pipe[p] # <<>> /\ t \notin DOMAIN pipe[p][1].arg

\* ------------------------------------------ properties, one call at a time

\* The batch of the call a step of SpecSeq serves, and the step itself.
ServedBatch == batch_embeddings'[SeqProc]
ServedList == combined_data_list'[SeqProc]
SeqStep(status_code) == SeqCall(ServedBatch, status_code)
Record(hashes, id) ==
    [id |-> id,
     text_embedding |-> hashes[id]["EMBEDDINGS_TEXT"].json,
     image_embedding |-> hashes[id]["EMBEDDINGS_IMAGE"].json,
     index_name |-> hashes[id]["index_name"]]
BatchIds(batch) == {batch[k].id : k \in 1..Len(batch)}

\* The hashes once the entries are applied one after the other, each setting the
\* field of its type and index_name and keeping every other field.
RECURSIVE Upserted(_, _)
Upserted(hashes, entries) ==
    IF entries = <<>> THEN hashes
    ELSE LET e == Head(entries)
             fields == {e.embedding_type, "index_name"}
             hash == [f \in (DOMAIN hashes[e.id]) \cup fields |->
                         IF f = e.embedding_type THEN [json |-> e.embedding]
                         ELSE IF f = "index_name" THEN e.index_name
                         ELSE hashes[e.id][f]]
         IN  Upserted([hashes EXCEPT ![e.id] = hash], Tail(entries))

\* C2: a call whose post is answered with a non-200 status ends with the
\* Exception; the sink has taken nothing, no hash is deleted (the store is the one
\* the batch's writes left, every record of the list in it in full), and the
\* next call returns every record of that list again: the same record when the
\* next batch does not write its id, a record of the same id when it does.
C2_SinkFailureKeepsBatch ==
    /\ [][\A status_code \in StatusCodes \ {200} :
            (SeqStep(status_code) /\ ServedList # {} /\ Cardinality(IndexNamesOf(ServedList)) = 1)
            => /\ result'[SeqProc] = "Exception"
               /\ sink' = sink
               /\ store' = Saved(CurrentDb, ServedBatch).hashes
               /\ \A data \in ServedList :
                     HoldsBoth(store'[data.id]) /\ data = Record(store', data.id)]_vars
    /\ [][\A status_code \in StatusCodes :
            (SeqStep(status_code) /\ result[SeqProc] = "Exception")
            => \A data \in combined_data_list[SeqProc] :
                  /\ data.id \in IdsOf(ServedList)
                  /\ data.id \notin BatchIds(ServedBatch) => data \in ServedList]_vars

\* A call with an empty batch has forwarded records: the ones an earlier call
\* joined and could not forward.
C2_Witness ==
    /\ calls[SeqProc] = 2 /\ batch_embeddings[SeqProc] = <<>>
    /\ result[SeqProc] = "returned" /\ combined_data_list[SeqProc] # {}
    /\ Len(sink) = 1

\* C8: the list a call returns holds one record for each id of the whole store
\* whose hash holds both types once the batch's entries are applied as field
\* upserts, and for no other id; each record is the one the store holds for its
\* id after the writes, and the hash of an id with one type stays in the store.
C8_ExactlyTheCompleteIds ==
    [][\A status_code \in StatusCodes : SeqStep(status_code) =>
          LET upserted == Upserted(store, ServedBatch)
              written == Saved(CurrentDb, ServedBatch).hashes
          IN  /\ IdsOf(ServedList) = {id \in Ids : HoldsBoth(upserted[id])}
              /\ Cardinality(ServedList) = Cardinality(IdsOf(ServedList))
              /\ \A data \in ServedList : data = Record(written, data.id)
              /\ \A id \in Ids : HoldsOne(upserted[id]) =>
                    /\ id \notin IdsOf(ServedList)
                    /\ HoldsOne(store'[id]) /\ store'[id] = written[id]]_vars

\* The second call wrote one type of an id whose other type an earlier call had
\* written, and returned that id; the other id stays in the store with one type.
C8_Witness ==
    \E id \in Ids : \E other \in Ids \ {id} :
        /\ calls[SeqProc] = 2
        /\ Cardinality(TypesIn(batch_embeddings[SeqProc], id)) = 1
        /\ IdsOf(combined_data_list[SeqProc]) = {id}
        /\ HoldsOne(store[other])

TextOf(id, embedding, index_name) ==
    [id |-> id, embedding_type |-> "EMBEDDINGS_TEXT", embedding |-> embedding,
     index_name |-> index_name]
ImageOf(id, embedding, index_name) ==
    [id |-> id, embedding_type |-> "EMBEDDINGS_IMAGE", embedding |-> embedding,
     index_name |-> index_name]

\* Two successive calls of save_embeddings_batch, each with one entry, give the
\* same database in either order, and return the id at the second call only.
Commute(db, a, b) ==
    LET ab == Saved(Saved(db, <<a>>), <<b>>)
        ba == Saved(Saved(db, <<b>>), <<a>>)
    IN  /\ ab = ba
        /\ a.id \notin IdsOf(Joined(db, <<a>>))
        /\ a.id \notin IdsOf(Joined(db, <<b>>))
        /\ a.id \in IdsOf(Joined(Saved(db, <<a>>), <<b>>))
        /\ a.id \in IdsOf(Joined(Saved(db, <<b>>), <<a>>))
        /\ Joined(Saved(db, <<a>>), <<b>>) = Joined(Saved(db, <<b>>), <<a>>)

\* C5 (as stated): from any store the service can be in where the key of an id
\* does not exist, text then image and image then text give the same stored
\* record and complete at the second call, whatever the two entries carry.
C5_CommutesAnyEntries ==
    \A id \in Ids : store[id] = NoHash =>
        \A u \in Embeddings, v \in Embeddings, i \in IndexNames, j \in IndexNames :
            Commute(CurrentDb, TextOf(id, u, i), ImageOf(id, v, j))

\* C5 (amended): the same, for two entries that carry the same index_name.
C5_CommutesSameIndex ==
    \A id \in Ids : store[id] = NoHash =>
        \A u \in Embeddings, v \in Embeddings, i \in IndexNames :
            Commute(CurrentDb, TextOf(id, u, i), ImageOf(id, v, i))

\* The key of an id does not exist while the other id is stored in full, its
\* post refused: either order of the two submissions returns the other id at
\* the first call and both at the second.
C5_Witness ==
    \E id \in Ids : \E other \in Ids \ {id} :
        /\ store[id] = NoHash
        /\ HoldsBoth(store[other])
        /\ result[SeqProc] = "Exception"

\* save_embeddings_batch called twice with the same single entry: the database
\* after the first call, after the second, and the two lists returned.
Twice(db, e) ==
    [first |-> Saved(db, <<e>>), second |-> Saved(Saved(db, <<e>>), <<e>>),
     joined |-> Joined(db, <<e>>), again |-> Joined(Saved(db, <<e>>), <<e>>)]

\* C6 (as stated): from any store the service can be in, a second call of
\* save_embeddings_batch with the same entry leaves the store as the first left
\* it, and does not return the id again if the first call returned it.
C6_ResubmitNoSecondSignal ==
    \A e \in Embedding :
        LET t == Twice(CurrentDb, e)
        IN  /\ t.second = t.first
            /\ HoldsBoth(t.second.hashes[e.id]) <=> HoldsBoth(t.first.hashes[e.id])
            /\ ~(e.id \in IdsOf(t.joined) /\ e.id \in IdsOf(t.again))

\* C6 (amended): the second call leaves the store as the first left it, and
\* returns exactly the list the first returned: no record for the id while a
\* type is missing, the same record again once both are stored.
C6_ResubmitUnchanged ==
    \A e \in Embedding :
        LET t == Twice(CurrentDb, e)
        IN  /\ t.second = t.first
            /\ HoldsBoth(t.second.hashes[e.id]) <=> HoldsBoth(t.first.hashes[e.id])
            /\ t.again = t.joined
            /\ e.id \in IdsOf(t.again) <=> HoldsBoth(t.first.hashes[e.id])

\* An id is stored with one type and another embedding than the one submitted:
\* the first call overwrites or completes the record, the second finds it so.
C6_Witness ==
    \E id \in Ids :
        /\ HoldsOne(store[id])
        /\ calls[SeqProc] >= 1
        /\ id \in BatchIds(batch_embeddings[SeqProc])

DistinctIds(batch) == Cardinality(BatchIds(batch)) = Len(batch)
Orders(batch) ==
    {[k \in 1..Len(batch) |-> batch[f[k]]] :
        f \in {g \in [1..Len(batch) -> 1..Len(batch)] :
                  \A a \in 1..Len(batch), b \in 1..Len(batch) : a # b => g[a] # g[b]}}

\* C7 (as stated): a batch of entries with distinct ids returns the ids the
\* single-item path completes for them, in any order of submission.
C7_BatchEqualsSequential ==
    [][\A status_code \in StatusCodes : (SeqStep(status_code) /\ DistinctIds(ServedBatch)) =>
          \A entries \in Orders(ServedBatch) :
              IdsOf(ServedList) = SubmittedOneByOne(store, entries)]_vars

\* C7 (amended): it returns those ids and, besides, every id outside the batch
\* whose hash already held both types when the call began.
C7_BatchEqualsSequentialPlusStored ==
    [][\A status_code \in StatusCodes : (SeqStep(status_code) /\ DistinctIds(ServedBatch)) =>
          \A entries \in Orders(ServedBatch) :
              IdsOf(ServedList) =
                  SubmittedOneByOne(store, entries)
                      \cup {id \in Ids \ BatchIds(ServedBatch) : HoldsBoth(store[id])}]_vars

\* A batch of two entries with distinct ids has completed both ids, each with the
\* type an earlier call left missing.
C7_Witness ==
    /\ calls[SeqProc] = 2
    /\ Len(batch_embeddings[SeqProc]) = 2 /\ DistinctIds(batch_embeddings[SeqProc])
    /\ IdsOf(combined_data_list[SeqProc]) = BatchIds(batch_embeddings[SeqProc])

\* ------------------------------------- properties, the remaining race outcomes

\* The posts the sink answered 200 to that hold a record of the id.
AcceptedWith(id) == {k \in 1..Len(sink) : id \in IdsOf(sink[k].json)}

\* The two requests have each been called once, one with the text and the other
\* with the image of the id, and nothing else was ever submitted.
EachSideOnce(id) ==
    /\ \A p \in Procs : calls[p] = 1 /\ Len(batch_embeddings[p]) = 1
    /\ \A p \in Procs : batch_embeddings[p][1].id = id
    /\ batch_embeddings[SeqProc][1].embedding_type # batch_embeddings[Other(SeqProc)][1].embedding_type

\* C11: when each type of an id was submitted once, by two concurrent calls, the
\* sink has accepted at most one post holding the id's record, and exactly one
\* once both calls have returned after a forward.
C11_ForwardedOnce ==
    \A id \in Ids : EachSideOnce(id) =>
        /\ Cardinality(AcceptedWith(id)) <= 1
        /\ (\A p \in Procs : pc[p] = "idle" /\ result[p] \in {"returned", "nothing"})
              => (Cardinality(AcceptedWith(id)) = 1 \/ \A p \in Procs : result[p] = "nothing")

\* aggregate_data_batch([]) on the current database, the sink answering status_code.
EmptyCall(status_code) == AggregateDataBatch(CurrentDb, <<>>, status_code)
StoredInFull == {id \in Ids : HoldsBoth(store[id])}

\* C12 (as stated): from any store the service can be in, a call with an empty
\* batch ends without an error, leaves the database as it was and posts nothing.
C12_EmptyBatchNoOp ==
    \A status_code \in StatusCodes :
        /\ EmptyCall(status_code).db = CurrentDb
        /\ ~EmptyCall(status_code).accepted
        /\ EmptyCall(status_code).result = "nothing"

\* C12 (amended): a call with an empty batch writes nothing, and joins the ids the
\* store already holds in full.  With none it is a no-op; with some it goes on as
\* any call does: the ValueError on two index names, else the post, and the
\* delete of those ids on a 200 or the Exception otherwise.
C12_EmptyBatchJoinsStored ==
    \A status_code \in StatusCodes :
        LET out == EmptyCall(status_code)
            names == {store[id]["index_name"] : id \in StoredInFull}
        IN  /\ Saved(CurrentDb, <<>>) = CurrentDb
            /\ IdsOf(out.formatted) = StoredInFull
            /\ StoredInFull = {} =>
                    out.db = CurrentDb /\ ~out.accepted /\ out.result = "nothing"
            /\ Cardinality(names) > 1 =>
                    out.db = CurrentDb /\ ~out.accepted /\ out.result = "ValueError"
            /\ (Cardinality(names) = 1 /\ status_code # 200) =>
                    out.db = CurrentDb /\ ~out.accepted /\ out.result = "Exception"
            /\ (Cardinality(names) = 1 /\ status_code = 200) =>
                    /\ out.accepted /\ out.result = "returned"
                    /\ out.db = [CurrentDb EXCEPT !.hashes = DeleteKeys(@, StoredInFull)]

\* A call with an empty batch has ended as a no-op on a store that holds an id
\* with one type, the database as the call before left it.
C12_Witness ==
    /\ calls[SeqProc] = 2 /\ batch_embeddings[SeqProc] = <<>>
    /\ result[SeqProc] = "nothing" /\ combined_data_list[SeqProc] = {}
    /\ \E id \in Ids : HoldsOne(store[id])
    /\ sink = <<>>

\* The index names the writes of an id have carried once the batch is applied:
\* the one its hash holds, if the key exists, and those of the batch's entries.
NamesWritten(hashes, batch, id) ==
    (IF hashes[id] = NoHash THEN {} ELSE {hashes[id]["index_name"]})
        \cup {batch[k].index_name : k \in {j \in 1..Len(batch) : batch[j].id = id}}

\* C13: a call does not forward to the sink the record of an id whose writes have
\* carried more than one index_name.
C13_MixedNamesNotForwarded ==
    [][\A status_code \in StatusCodes : SeqStep(status_code) =>
          \A id \in Ids : Cardinality(NamesWritten(store, ServedBatch, id)) > 1 =>
              ~(sink' # sink /\ id \in IdsOf(ServedList))]_vars

\* A hash of the store loses a field, or the whole key, at this step.
Removed(id) == ~(DOMAIN store[id] \subseteq DOMAIN store'[id])

\* C14: a hash loses its key (or any field) only at the delete step of a request
\* whose post held a record of that id and was answered 200; the loop, the
\* pipeline, the intersection, the fetch and the post itself remove nothing.
C14_DeleteOnlyAfter200 ==
    /\ [][\A id \in Ids : Removed(id) =>
              \E p \in Procs :
                  /\ Delete(p)
                  /\ id \in IdsOf(combined_data_list[p])
                  /\ \E k \in 1..Len(sink) : sink[k].json = combined_data_list[p]]_vars
    /\ [][\A p \in Procs : \A status_code \in StatusCodes :
              (Post(p, status_code) /\ pc'[p] = "delete") =>
                  status_code = 200 /\ sink' = Append(sink, sink'[Len(sink')])
                                    /\ sink'[Len(sink')].json = combined_data_list[p]]_vars

\* A call has forwarded one id and deleted its key, while the other id, stored
\* with one type, is still there.
C14_Witness ==
    \E p \in Procs : \E id \in Ids : \E other \in Ids \ {id} :
        /\ pc[p] = "idle" /\ result[p] = "returned"
        /\ IdsOf(combined_data_list[p]) = {id}
        /\ store[id] = NoHash /\ HoldsOne(store[other])
        /\ \E k \in 1..Len(sink) : sink[k].json = combined_data_list[p]

\* C15: when a request executes the pipeline of a one-entry batch, the embedding
\* the hash of the entry's id holds for the other type is the same after the
\* step as before it.
C15_OtherSideUntouched ==
    [][\A p \in Procs :
          (ExecutePipe(p) /\ Len(batch_embeddings[p]) = 1) =>
              LET e == batch_embeddings[p][1]
              IN  \A t \in (EmbeddingTypes \ {e.embedding_type}) \cap DOMAIN store[e.id] :
                      /\ t \in DOMAIN store'[e.id]
                      /\ store'[e.id][t] = store[e.id][t]]_vars

\* Both requests have come to the end of save_embeddings_batch.
BothJoined == \A p \in Procs : pc[p] \in {"idle", "post", "delete"}

\* C16: when two concurrent calls have each submitted one of the two types of an
\* id and both have come to the end of save_embeddings_batch, the list of at
\* least one of them holds a record of the id.
C16_OneCallDetects ==
    \A id \in Ids : (EachSideOnce(id) /\ BothJoined) =>
        \E p \in Procs : id \in IdsOf(combined_data_list[p])

\* Both calls are over: one found nothing and the other forwarded the id.
C16_Witness ==
    \E id \in Ids : \E p \in Procs :
        /\ EachSideOnce(id)
        /\ pc[p] = "idle" /\ result[p] = "returned" /\ id \in IdsOf(combined_data_list[p])
        /\ pc[Other(p)] = "idle" /\ result[Other(p)] = "nothing"

\* The embedding a forwarded record carries for a type.
PayloadOf(data, t) ==
    IF t = "EMBEDDINGS_TEXT" THEN data.text_embedding ELSE data.image_embedding

\* The sink has accepted, or a request is about to post, a record of the id that
\* carries this embedding for the type.
ForwardedOrPending(id, t, embedding) ==
    \/ \E k \in 1..Len(sink) : \E data \in sink[k].json :
          data.id = id /\ PayloadOf(data, t) = embedding
    \/ \E q \in Procs : \E data \in combined_data_list[q] :
          pc[q] = "post" /\ data.id = id /\ PayloadOf(data, t) = embedding

\* C17: every embedding a hash holds when the delete of a request removes it
\* has been accepted by the sink in a record of that id (or is in the list a
\* request is about to post).
C17_DeletedWasForwarded ==
    [][\A p \in Procs : Delete(p) =>
          \A data \in combined_data_list[p] :
              \A t \in EmbeddingTypes \cap DOMAIN store[data.id] :
                  ForwardedOrPending(data.id, t, Loads(store[data.id][t]))]_vars

\* The members of the set an embedding type is tracked in.
Members(t) == IF ReadinessSet(t) = TEXT_EMBEDDING_SET THEN text_embedding_ids
              ELSE image_embedding_ids

\* C18: an id whose hash holds the embedding of a type is a member of that type's
\* set, so the intersection of the two sets holds every id stored in full.
C18_SetsCoverHashes ==
    /\ \A id \in Ids : \A t \in EmbeddingTypes \cap DOMAIN store[id] : id \in Members(t)
    /\ StoredInFull \subseteq SInter(CurrentDb)

\* One id is in both sets although its key was deleted after a forward, while a
\* request has written one type of the other id and is about to intersect.
C18_Witness ==
    \E id \in Ids : \E other \in Ids \ {id} : \E p \in Procs :
        /\ store[id] = NoHash /\ id \in SInter(CurrentDb)
        /\ HoldsOne(store[other]) /\ other \notin SInter(CurrentDb)
        /\ pc[p] = "sinter" /\ other \in BatchIds(batch_embeddings[p])

\* The entries of a batch all carry the same index_name.
OneName(batch) == Cardinality({batch[k].index_name : k \in 1..Len(batch)}) <= 1

\* C19: a call whose batch carries one index_name, made after calls whose batches
\* each carried one index_name, does not end with the ValueError.
C19_OneNameNeverMixed ==
    [][\A status_code \in StatusCodes :
          (SeqStep(status_code) /\ OneName(batch_embeddings[SeqProc]) /\ OneName(ServedBatch))
              => result'[SeqProc] # "ValueError"]_vars

\* ------------------------------------------ properties, calls without end

\* C10: a hash that holds both types leaves the store only by the delete of a
\* call that forwarded its id, and, calls arriving without end and the sink
\* answering 200 again and again when asked, it does leave the store that way.
C10_CompletedEventuallyForwarded ==
    /\ [][\A id \in Ids : (HoldsBoth(store[id]) /\ ~HoldsBoth(store'[id])) =>
              /\ Delete(SeqProc)
              /\ id \in IdsOf(combined_data_list[SeqProc])]_vars
    /\ \A id \in Ids : HoldsBoth(store[id]) ~> ~HoldsBoth(store[id])

====
